---- MODULE Spec2Model ----
(***************************************************************************)
(* A model of qlib/backtest/utils.py: the step calendar                    *)
(* (TradeCalendarManager), the capability registries (BaseInfrastructure,  *)
(* CommonInfrastructure, LevelInfrastructure) and get_start_end_idx.       *)
(*                                                                         *)
(* Objects live in two heaps: calendars (cal, alloc) and registries        *)
(* (attrs, live).  A reference to an object is a tagged record, so that    *)
(* "the same object" is equality of references.  last records the most     *)
(* recent call: its name, its receiver, whether it raised, and its result. *)
(***************************************************************************)
EXTENDS Integers, Sequences, FiniteSets, TLC

VARIABLES cal, alloc, attrs, live, last, hist

vars == <<cal, alloc, attrs, live, last, hist>>

-----------------------------------------------------------------------------
(* Bounds of the model *)

\* Largest position the location service answers with (positions are 0-based).
MaxIndex == 2

\* Largest number of failing step() calls followed after one reset.
MaxFail == 2

-----------------------------------------------------------------------------
(* Values: everything a Python name can be bound to in this model *)

NoneV == [kind |-> "none"]
BoolV(b) == [kind |-> "bool", b |-> b]
IntV(n) == [kind |-> "int", n |-> n]
StrV(s) == [kind |-> "str", s |-> s]
TsV(t) == [kind |-> "ts", t |-> t]
PairV(a, b) == [kind |-> "pair", a |-> a, b |-> b]
CalRef(c) == [kind |-> "cal", id |-> c]
InfraRef(r) == [kind |-> "infra", id |-> r]
ObjV(n) == [kind |-> "obj", id |-> n]
MethodV(r, name) == [kind |-> "method", self |-> r, name |-> name]

\* The outcome of a call: it returned val, or it raised (val names the error).
\* A warning (warnings.warn) is not an error: the call still returns.
Returned(v) == [raised |-> FALSE, warn |-> FALSE, val |-> v]
Warned(v) == [raised |-> FALSE, warn |-> TRUE, val |-> v]
Raised(e) == [raised |-> TRUE, warn |-> FALSE, val |-> StrV(e)]

-----------------------------------------------------------------------------
(* The calendar resampling / location service (external to utils.py) *)

Freqs == {"day", "30min"}

\* Seconds between two bars of a frequency.
Period(freq) == IF freq = "day" THEN 86400 ELSE 1800

\* Number of bars of the master calendar of a frequency: the "day" calendar
\* ends at the last position the service can answer with, the "30min" one
\* has one more bar after it.
CalendarLen(freq) == IF freq = "day" THEN MaxIndex + 1 ELSE MaxIndex + 2

\* get_resam_calendar(freq): the discretized, increasing sequence of bar opens.
get_resam_calendar(freq) == [i \in 1..CalendarLen(freq) |-> TsV(i * Period(freq))]

\* Cal.locate_index(start_time, end_time, freq, freq_sam): the positions
\* (start_index, end_index) the service may answer with.  The calendar treats
\* the answer as authoritative; end_index < start_index is an empty range.
locate_index(start_time, end_time, freq) == (0..MaxIndex) \X (0..MaxIndex)

\* The (start_time, end_time) arguments a caller passes: each is None, a
\* date string or a timestamp.
TimeRanges ==
    {<<NoneV, NoneV>>, <<StrV("t1"), TsV(2)>>, <<TsV(1), StrV("t2")>>, <<TsV(2), NoneV>>}

\* pd.Timestamp(x): a string is parsed, a timestamp is kept.
Timestamp(x) == IF x.kind = "str" THEN (IF x.s = "t1" THEN TsV(1) ELSE TsV(2)) ELSE x

\* Python truth value of a time argument (None and "" are false).
Truthy(x) == x.kind # "none" /\ ~(x.kind = "str" /\ x.s = "")

\* seq[i] of a numpy array, i 0-based: a negative i counts from the end,
\* a position outside the array raises IndexError.
InRange(seq, i) == -Len(seq) <= i /\ i < Len(seq)
At(seq, i) == IF i >= 0 THEN seq[i + 1] ELSE seq[Len(seq) + i + 1]

-----------------------------------------------------------------------------
(* TradeCalendarManager *)

CalIds == {1, 2}

\* The fields of a calendar object that no constructor has run on yet.
BlankCal ==
    [freq |-> "", start_time |-> NoneV, end_time |-> NoneV, calendar |-> <<>>,
     start_index |-> 0, end_index |-> 0, trade_len |-> 0, trade_step |-> 0]

\* A reset that forgets to rewind the cursor.
reset_keeps_step(m, freq, start_time, end_time, idx) ==
    [m EXCEPT
        !.freq = freq,
        !.start_time = IF Truthy(start_time) THEN Timestamp(start_time) ELSE NoneV,
        !.end_time = IF Truthy(end_time) THEN Timestamp(end_time) ELSE NoneV,
        !.calendar = get_resam_calendar(freq),
        !.start_index = idx[1],
        !.end_index = idx[2],
        !.trade_len = idx[2] - idx[1] + 1]

\* reset(freq, start_time, end_time) on a calendar with fields m: the fields
\* after the call, idx being the answer of the location service.
reset(m, freq, start_time, end_time, idx) ==
    [m EXCEPT
        !.freq = freq,
        !.start_time = IF Truthy(start_time) THEN Timestamp(start_time) ELSE NoneV,
        !.end_time = IF Truthy(end_time) THEN Timestamp(end_time) ELSE NoneV,
        !.calendar = get_resam_calendar(freq),
        !.start_index = idx[1],
        !.end_index = idx[2],
        !.trade_len = idx[2] - idx[1] + 1,
        !.trade_step = 0]

\* A finished() that compares with > instead of >=.
finished_late(m) == m.trade_step > m.trade_len

\* A finished() that reports the end one step early.
finished_early(m) == m.trade_step + 1 >= m.trade_len

\* finished(): trade_step >= trade_len, of a calendar with fields m.
finished(m) == m.trade_step >= m.trade_len

\* step(): the outcome on a calendar with fields m, and the fields after it.
step_outcome(m) ==
    IF finished(m) THEN Raised("RuntimeError: The calendar is finished") ELSE Returned(NoneV)

\* A step that advances the cursor before it checks finished().
step_unguarded(m) == [m EXCEPT !.trade_step = m.trade_step + 1]

\* A step that advances the cursor by two.
step_by_two(m) == IF finished(m) THEN m ELSE [m EXCEPT !.trade_step = m.trade_step + 2]

\* A step that moves the start of the range along with the cursor.
step_moves_window(m) ==
    IF finished(m) THEN m
    ELSE [m EXCEPT !.trade_step = m.trade_step + 1, !.start_index = m.start_index + 1]

step(m) == IF finished(m) THEN m ELSE [m EXCEPT !.trade_step = m.trade_step + 1]

get_freq(m) == Returned(StrV(m.freq))

get_trade_len(m) == Returned(IntV(m.trade_len))

get_trade_step(m) == Returned(IntV(m.trade_step))

\* A get_step_time that adds the shift instead of subtracting it.
get_step_time_plus_shift(m, trade_step, shift) ==
    LET eff == trade_step + shift
        calendar_index == m.start_index + eff
    IN  IF InRange(m.calendar, calendar_index) /\ InRange(m.calendar, calendar_index + 1)
        THEN Returned(PairV(At(m.calendar, calendar_index),
                            TsV(At(m.calendar, calendar_index + 1).t - 1)))
        ELSE Raised("IndexError")

\* A get_step_time whose right end is the next bar's open itself.
get_step_time_open_end(m, trade_step, shift) ==
    LET eff == trade_step - shift
        calendar_index == m.start_index + eff
    IN  IF InRange(m.calendar, calendar_index) /\ InRange(m.calendar, calendar_index + 1)
        THEN Returned(PairV(At(m.calendar, calendar_index),
                            At(m.calendar, calendar_index + 1)))
        ELSE Raised("IndexError")

\* get_step_time(trade_step, shift): the closed interval of a bar; the right
\* end is the next bar's open minus one second.
get_step_time(m, trade_step, shift) ==
    LET eff == trade_step - shift
        calendar_index == m.start_index + eff
    IN  IF InRange(m.calendar, calendar_index) /\ InRange(m.calendar, calendar_index + 1)
        THEN Returned(PairV(At(m.calendar, calendar_index),
                            TsV(At(m.calendar, calendar_index + 1).t - 1)))
        ELSE Raised("IndexError")

\* A get_step_time whose omitted trade_step is the calendar's cursor.
get_step_time_default_cursor(m) == get_step_time(m, m.trade_step, 0)

\* get_step_time() with both parameters omitted: trade_step=0, shift=0.
get_step_time_default(m) == get_step_time(m, 0, 0)

get_cur_step_time(m) == get_step_time(m, m.trade_step, 0)

get_all_time(m) == Returned(PairV(m.start_time, m.end_time))

-----------------------------------------------------------------------------
(* Calls on calendar objects *)

\* The record of a call: operation, receiver, argument and outcome.
Call(op, self, arg, out) ==
    [op |-> op, self |-> self, arg |-> arg,
     raised |-> out.raised, warn |-> out.warn, val |-> out.val]

NoHist == [calls |-> 0, fails |-> 0]

\* TradeCalendarManager(freq, start_time, end_time): __init__ runs reset on a new object.
\* idx is the answer the location service gives to this call.
New(c, freq, start_time, end_time, idx) ==
    /\ c \notin alloc
    /\ idx \in locate_index(start_time, end_time, freq)
    /\ cal' = [cal EXCEPT ![c] = reset(cal[c], freq, start_time, end_time, idx)]
    /\ alloc' = alloc \cup {c}
    /\ hist' = [hist EXCEPT ![c] = NoHist]
    /\ last' = Call("__init__", CalRef(c), NoneV, Returned(NoneV))
    /\ UNCHANGED <<attrs, live>>

Reset(c, freq, start_time, end_time, idx) ==
    /\ c \in alloc
    /\ idx \in locate_index(start_time, end_time, freq)
    /\ cal' = [cal EXCEPT ![c] = reset(cal[c], freq, start_time, end_time, idx)]
    /\ hist' = [hist EXCEPT ![c] = NoHist]
    /\ last' = Call("reset", CalRef(c), NoneV, Returned(NoneV))
    /\ UNCHANGED <<alloc, attrs, live>>

\* hist counts the step() calls, and those of them that raised, since the
\* last reset of the calendar.
Step(c) ==
    /\ c \in alloc
    /\ hist[c].fails < MaxFail
    /\ cal' = [cal EXCEPT ![c] = step(cal[c])]
    /\ hist' = [hist EXCEPT ![c] =
                  [calls |-> @.calls + 1,
                   fails |-> @.fails + (IF step_outcome(cal[c]).raised THEN 1 ELSE 0)]]
    /\ last' = Call("step", CalRef(c), NoneV, step_outcome(cal[c]))
    /\ UNCHANGED <<alloc, attrs, live>>

\* A call that reads a calendar: only last changes.
Read(op, c, arg, out) ==
    /\ c \in alloc
    /\ last' = Call(op, CalRef(c), arg, out)
    /\ UNCHANGED <<cal, alloc, attrs, live, hist>>

Finished(c) == Read("finished", c, NoneV, Returned(BoolV(finished(cal[c]))))

GetFreq(c) == Read("get_freq", c, NoneV, get_freq(cal[c]))

GetTradeLen(c) == Read("get_trade_len", c, NoneV, get_trade_len(cal[c]))

GetTradeStep(c) == Read("get_trade_step", c, NoneV, get_trade_step(cal[c]))

StepArgs == 0..MaxIndex
ShiftArgs == {-1, 0, 1}

GetStepTime(c, trade_step, shift) ==
    Read("get_step_time", c, PairV(IntV(trade_step), IntV(shift)),
         get_step_time(cal[c], trade_step, shift))

\* get_step_time() called with no argument.
GetStepTimeDefault(c) == Read("get_step_time", c, NoneV, get_step_time_default(cal[c]))

GetCurStepTime(c) == Read("get_cur_step_time", c, NoneV, get_cur_step_time(cal[c]))

GetAllTime(c) == Read("get_all_time", c, NoneV, get_all_time(cal[c]))

-----------------------------------------------------------------------------
(* get_start_end_idx and the trade decisions it consults *)

\* A trade decision either implements get_range_limit(), answering with its
\* own (start, end), or does not.
NoLimit == [kind |-> "decision", impl |-> FALSE]
Limit(a, b) == [kind |-> "decision", impl |-> TRUE, a |-> a, b |-> b]

\* The range limits a decision answers with: inside and outside [0, trade_len).
RangeArgs == {-1, 0, MaxIndex + 1}

Decisions == {NoLimit} \cup {Limit(a, b) : a \in RangeArgs, b \in RangeArgs}

\* outer_trade_decision.get_range_limit()
get_range_limit(dec) ==
    IF dec.impl THEN Returned(PairV(IntV(dec.a), IntV(dec.b)))
    ELSE Raised("NotImplementedError")

Max(a, b) == IF a >= b THEN a ELSE b
Min(a, b) == IF a <= b THEN a ELSE b

\* A get_start_end_idx that clamps the decision's range to the calendar.
get_start_end_idx_clamped(m, dec) ==
    LET out == get_range_limit(dec)
        hi == get_trade_len(m).val.n - 1
    IN  IF out.raised THEN Returned(PairV(IntV(0), IntV(hi)))
        ELSE Returned(PairV(IntV(Max(0, out.val.a.n)), IntV(Min(hi, out.val.b.n))))

\* get_start_end_idx(trade_calendar, outer_trade_decision), m being the
\* fields of trade_calendar.
get_start_end_idx(m, dec) ==
    LET out == get_range_limit(dec)
    IN  IF out.raised /\ out.val = StrV("NotImplementedError")
        THEN Returned(PairV(IntV(0), IntV(get_trade_len(m).val.n - 1)))
        ELSE out

GetStartEndIdx(c, dec) == Read("get_start_end_idx", c, dec, get_start_end_idx(cal[c], dec))

-----------------------------------------------------------------------------
(* BaseInfrastructure, CommonInfrastructure, LevelInfrastructure *)

\* Registry objects: 1 and 2 are LevelInfrastructure, 3 is CommonInfrastructure.
LevelRegs == {1, 2}
CommonRegs == {3}
Regs == LevelRegs \cup CommonRegs

\* Largest number of keyword arguments of one call.
MaxKwargs == 2

\* get_support_infra() of the two variants.
get_support_infra(r) ==
    IF r \in LevelRegs THEN {"trade_calendar", "sub_level_infra"}
    ELSE {"trade_account", "trade_exchange"}

\* Attributes every instance has from its class: the methods.
ClassAttrs(r) ==
    {"get_support_infra", "reset_infra", "get", "has", "update"}
        \cup (IF r \in LevelRegs THEN {"reset_cal", "set_sub_level_infra"} ELSE {})

\* The attribute names of the model: the four slots (each unsupported by one
\* of the variants) and a method name.
Names == {"trade_account", "trade_exchange", "trade_calendar", "sub_level_infra", "get"}

\* What the instance dictionary holds for a name that was never set.
Absent == [kind |-> "absent"]

NoAttrs == [n \in Names |-> Absent]

\* hasattr(self, name) and getattr(self, name), d being the instance dictionary:
\* the instance dictionary first, then the class.
hasattr(r, d, name) == d[name] # Absent \/ name \in ClassAttrs(r)

getattr(r, d, name) == IF d[name] # Absent THEN d[name] ELSE MethodV(r, name)

\* A reset_infra that stores every pair without consulting the supported set.
reset_infra_unchecked(r, d, kwargs) ==
    [n \in Names |-> IF n \in DOMAIN kwargs THEN kwargs[n] ELSE d[n]]

\* A reset_infra that stores nothing when one of the names is unsupported.
reset_infra_all_or_nothing(r, d, kwargs) ==
    IF \E k \in DOMAIN kwargs : k \notin get_support_infra(r) THEN d
    ELSE [n \in Names |-> IF n \in DOMAIN kwargs THEN kwargs[n] ELSE d[n]]

\* reset_infra(**kwargs): the instance dictionary after the call.
reset_infra(r, d, kwargs) ==
    [n \in Names |->
        IF n \in DOMAIN kwargs /\ n \in get_support_infra(r) THEN kwargs[n] ELSE d[n]]

reset_infra_outcome(r, kwargs) ==
    IF \E k \in DOMAIN kwargs : k \notin get_support_infra(r)
    THEN Warned(NoneV) ELSE Returned(NoneV)

\* get(infra_name)
get(r, d, infra_name) ==
    IF hasattr(r, d, infra_name) THEN Returned(getattr(r, d, infra_name))
    ELSE Warned(NoneV)

\* A has() that forgets the supported set.
has_any(r, d, infra_name) == hasattr(r, d, infra_name)

\* has(infra_name)
has(r, d, infra_name) ==
    IF infra_name \in get_support_infra(r) /\ hasattr(r, d, infra_name) THEN TRUE ELSE FALSE

\* update(other): the keyword arguments handed to reset_infra.
infra_dict(o, od) ==
    [n \in {x \in get_support_infra(o) : hasattr(o, od, x)} |-> getattr(o, od, n)]

\* An update that fills only the slots self does not hold yet.
update_setdefault(r, d, o, od) ==
    reset_infra(r, d, [n \in {x \in DOMAIN infra_dict(o, od) : d[x] = Absent} |-> infra_dict(o, od)[n]])

update(r, d, o, od) == reset_infra(r, d, infra_dict(o, od))

update_outcome(r, o, od) == reset_infra_outcome(r, infra_dict(o, od))

\* The objects a caller may pass under a name, and those of them that
\* exist in the current state.
ValuesFor(n) ==
    IF n = "trade_calendar" THEN {CalRef(c) : c \in CalIds}
    ELSE IF n = "sub_level_infra" THEN {InfraRef(r) : r \in LevelRegs}
    ELSE IF n = "trade_account" THEN {ObjV(1), ObjV(2)}
    ELSE {ObjV(1)}

Exists(v) ==
    IF v.kind = "cal" THEN v.id \in alloc
    ELSE IF v.kind = "infra" THEN v.id \in live
    ELSE TRUE

AllValues == UNION {ValuesFor(n) : n \in Names}

\* Keyword arguments: at most MaxKwargs named values.
Kwargs ==
    UNION {{kw \in [D -> AllValues] : \A n \in D : kw[n] \in ValuesFor(n)} :
              D \in {S \in SUBSET Names : Cardinality(S) <= MaxKwargs}}

\* The keyword arguments of a call, as recorded with the call.
KwargsV(kwargs) == [kind |-> "kwargs", kw |-> kwargs]

-----------------------------------------------------------------------------
(* Calls on registries *)

\* LevelInfrastructure(**kwargs) / CommonInfrastructure(**kwargs):
\* __init__ runs reset_infra on a new object.
NewInfra(r, kwargs) ==
    /\ r \notin live
    /\ \A n \in DOMAIN kwargs : Exists(kwargs[n])
    /\ live' = live \cup {r}
    /\ attrs' = [attrs EXCEPT ![r] = reset_infra(r, NoAttrs, kwargs)]
    /\ last' = Call("__init__", InfraRef(r), KwargsV(kwargs), reset_infra_outcome(r, kwargs))
    /\ UNCHANGED <<cal, alloc, hist>>

ResetInfra(r, kwargs) ==
    /\ r \in live
    /\ \A n \in DOMAIN kwargs : Exists(kwargs[n])
    /\ attrs' = [attrs EXCEPT ![r] = reset_infra(r, attrs[r], kwargs)]
    /\ last' = Call("reset_infra", InfraRef(r), KwargsV(kwargs), reset_infra_outcome(r, kwargs))
    /\ UNCHANGED <<cal, alloc, live, hist>>

\* An update that stores a copy of the other registry's calendar, a new
\* object with the same fields, when an unused calendar object is left.
Update_copies_object(r, o) ==
    /\ r \in live
    /\ o \in live
    /\ LET src == attrs[o]["trade_calendar"]
       IN  IF src.kind = "cal" /\ src # attrs[r]["trade_calendar"] /\ CalIds \ alloc # {}
           THEN \E c \in CalIds \ alloc :
                   /\ alloc' = alloc \cup {c}
                   /\ cal' = [cal EXCEPT ![c] = cal[src.id]]
                   /\ hist' = [hist EXCEPT ![c] = hist[src.id]]
                   /\ attrs' = [attrs EXCEPT ![r] =
                                  reset_infra(r, update(r, attrs[r], o, attrs[o]),
                                              [n \in {"trade_calendar"} |-> CalRef(c)])]
           ELSE /\ attrs' = [attrs EXCEPT ![r] = update(r, attrs[r], o, attrs[o])]
                /\ UNCHANGED <<cal, alloc, hist>>
    /\ last' = Call("update", InfraRef(r), InfraRef(o), update_outcome(r, o, attrs[o]))
    /\ UNCHANGED live

Update(r, o) ==
    /\ r \in live
    /\ o \in live
    /\ attrs' = [attrs EXCEPT ![r] = update(r, attrs[r], o, attrs[o])]
    /\ last' = Call("update", InfraRef(r), InfraRef(o), update_outcome(r, o, attrs[o]))
    /\ UNCHANGED <<cal, alloc, live, hist>>

Get(r, infra_name) ==
    /\ r \in live
    /\ last' = Call("get", InfraRef(r), StrV(infra_name), get(r, attrs[r], infra_name))
    /\ UNCHANGED <<cal, alloc, attrs, live, hist>>

Has(r, infra_name) ==
    /\ r \in live
    /\ last' = Call("has", InfraRef(r), StrV(infra_name),
                    Returned(BoolV(has(r, attrs[r], infra_name))))
    /\ UNCHANGED <<cal, alloc, attrs, live, hist>>

\* A reset_cal that stores the new calendar under the wrong slot name.
ResetCal_wrong_slot(r, c, freq, start_time, end_time, idx) ==
    /\ r \in live \cap LevelRegs
    /\ idx \in locate_index(start_time, end_time, freq)
    /\ c \notin alloc
    /\ alloc' = alloc \cup {c}
    /\ attrs' = [attrs EXCEPT ![r] =
                   reset_infra(r, attrs[r], [n \in {"sub_level_infra"} |-> CalRef(c)])]
    /\ cal' = [cal EXCEPT ![c] = reset(cal[c], freq, start_time, end_time, idx)]
    /\ hist' = [hist EXCEPT ![c] = NoHist]
    /\ last' = [op |-> "reset_cal", self |-> InfraRef(r), arg |-> NoneV,
                raised |-> FALSE, warn |-> FALSE, val |-> NoneV]
    /\ UNCHANGED live

\* A reset_cal that always constructs a new calendar and stores it.
ResetCal_replace(r, c, freq, start_time, end_time, idx) ==
    /\ r \in live \cap LevelRegs
    /\ idx \in locate_index(start_time, end_time, freq)
    /\ c \notin alloc
    /\ alloc' = alloc \cup {c}
    /\ attrs' = [attrs EXCEPT ![r] =
                   reset_infra(r, attrs[r], [n \in {"trade_calendar"} |-> CalRef(c)])]
    /\ cal' = [cal EXCEPT ![c] = reset(cal[c], freq, start_time, end_time, idx)]
    /\ hist' = [hist EXCEPT ![c] = NoHist]
    /\ last' = [op |-> "reset_cal", self |-> InfraRef(r), arg |-> NoneV,
                raised |-> FALSE, warn |-> FALSE, val |-> NoneV]
    /\ UNCHANGED live

\* reset_cal(freq, start_time, end_time): the held calendar is reset in place,
\* or a new calendar object c is constructed and stored.
ResetCal(r, c, freq, start_time, end_time, idx) ==
    /\ r \in live \cap LevelRegs
    /\ idx \in locate_index(start_time, end_time, freq)
    /\ IF has(r, attrs[r], "trade_calendar")
       THEN /\ get(r, attrs[r], "trade_calendar").val = CalRef(c)
            /\ c \in alloc
            /\ UNCHANGED <<alloc, attrs>>
       ELSE /\ c \notin alloc
            /\ \A x \in CalIds \ alloc : c <= x
            /\ alloc' = alloc \cup {c}
            /\ attrs' = [attrs EXCEPT ![r] =
                           reset_infra(r, attrs[r], [n \in {"trade_calendar"} |-> CalRef(c)])]
    /\ cal' = [cal EXCEPT ![c] = reset(cal[c], freq, start_time, end_time, idx)]
    /\ hist' = [hist EXCEPT ![c] = NoHist]
    /\ last' = Call("reset_cal", InfraRef(r), NoneV, Returned(NoneV))
    /\ UNCHANGED live

\* set_sub_level_infra(sub_level_infra)
SetSubLevelInfra(r, sub) ==
    /\ r \in live \cap LevelRegs
    /\ sub \in live \cap LevelRegs
    /\ attrs' = [attrs EXCEPT ![r] =
                   reset_infra(r, attrs[r], [n \in {"sub_level_infra"} |-> InfraRef(sub)])]
    /\ last' = Call("set_sub_level_infra", InfraRef(r), NoneV, Returned(NoneV))
    /\ UNCHANGED <<cal, alloc, live, hist>>

-----------------------------------------------------------------------------
(* The driving loop: while not calendar.finished(): calendar.step() *)

\* The loop's test: finished() is called on entry and after each step().
LoopTest(c) ==
    /\ last.self = CalRef(c)
    /\ last.op \in {"__init__", "step"}
    /\ Finished(c)

\* The loop's body: step() is called when the test has just answered False.
LoopStep(c) ==
    /\ last = Call("finished", CalRef(c), NoneV, Returned(BoolV(FALSE)))
    /\ Step(c)

\* The loop has left: its test has answered True.
LoopDone(c) == last = Call("finished", CalRef(c), NoneV, Returned(BoolV(TRUE)))

----------------------------------------------------------------------------
(* Specifications *)

Init ==
    /\ cal = [c \in CalIds |-> BlankCal]
    /\ alloc = {}
    /\ attrs = [r \in Regs |-> NoAttrs]
    /\ live = {}
    /\ last = Call("none", NoneV, NoneV, Returned(NoneV))
    /\ hist = [c \in CalIds |-> NoHist]

\* One stand-alone calendar driven through every method.
NextCal ==
    \/ \E f \in Freqs, t \in TimeRanges :
          \E idx \in locate_index(t[1], t[2], f) : New(1, f, t[1], t[2], idx)
    \/ \E f \in Freqs, t \in TimeRanges :
          \E idx \in locate_index(t[1], t[2], f) : Reset(1, f, t[1], t[2], idx)
    \/ Step(1)
    \/ Finished(1)
    \/ GetFreq(1)
    \/ GetTradeLen(1)
    \/ GetTradeStep(1)
    \/ \E s \in StepArgs, sh \in ShiftArgs : GetStepTime(1, s, sh)
    \/ GetCurStepTime(1)
    \/ GetAllTime(1)
    \/ \E dec \in Decisions : GetStartEndIdx(1, dec)
    \/ GetStepTimeDefault(1)

SpecCal == Init /\ [][NextCal]_vars

\* The registries; their calendars are reset with one answer of the
\* location service and are not stepped.
NextInfra ==
    \/ \E r \in Regs, kw \in Kwargs : NewInfra(r, kw)
    \/ \E r \in Regs, kw \in Kwargs : ResetInfra(r, kw)
    \/ \E r \in Regs, o \in Regs : Update(r, o)
    \/ \E r \in Regs, n \in Names : Get(r, n)
    \/ \E r \in Regs, n \in Names : Has(r, n)
    \/ \E r \in LevelRegs, c \in CalIds : ResetCal(r, c, "day", TsV(1), TsV(2), <<0, 1>>)
    \/ \E r \in LevelRegs, sub \in LevelRegs : SetSubLevelInfra(r, sub)

SpecInfra == Init /\ [][NextInfra]_vars

\* A calendar is constructed and driven by the loop until it is finished;
\* nothing else touches it. The loop is not stopped from outside, so its
\* test and its body are weakly fair.
NextLoop ==
    \/ \E f \in Freqs, t \in TimeRanges :
          \E idx \in locate_index(t[1], t[2], f) : New(1, f, t[1], t[2], idx)
    \/ LoopTest(1)
    \/ LoopStep(1)

SpecLoop == Init /\ [][NextLoop]_vars /\ WF_vars(LoopTest(1)) /\ WF_vars(LoopStep(1))

\* Two LevelInfrastructure registries and the calendars they share, stepped
\* through the registry that holds them.
LevelKwargs == {kw \in Kwargs : DOMAIN kw \subseteq {"trade_calendar"}}

LevelRanges == {<<0, 0>>, <<0, 1>>, <<1, 0>>}

StepVia(r) ==
    /\ r \in live
    /\ \E c \in CalIds : get(r, attrs[r], "trade_calendar").val = CalRef(c) /\ Step(c)

NextLevel ==
    \/ \E r \in LevelRegs, kw \in LevelKwargs : NewInfra(r, kw)
    \/ \E r \in LevelRegs, kw \in LevelKwargs : ResetInfra(r, kw)
    \/ \E r \in LevelRegs, o \in LevelRegs : Update(r, o)
    \/ \E r \in LevelRegs : Get(r, "trade_calendar")
    \/ \E r \in LevelRegs : Has(r, "trade_calendar")
    \/ \E r \in LevelRegs, c \in CalIds, idx \in LevelRanges :
          ResetCal(r, c, "day", TsV(1), TsV(2), idx)
    \/ \E r \in LevelRegs : StepVia(r)

SpecLevel == Init /\ [][NextLevel]_vars

-----------------------------------------------------------------------------
(* Properties of the step calendar, checked under SpecCal *)

FinishedError == StrV("RuntimeError: The calendar is finished")

\* C1: on a calendar reset with trade_len = N >= 1, each of the first N
\* step() calls succeeds, finished() is false after fewer than N calls and
\* true after the N-th, and every call after the N-th raises the
\* "calendar is finished" error.
C1_StepExactlyTradeLen ==
    \A c \in alloc :
        LET m == cal[c]
            h == hist[c]
            N == m.trade_len
        IN  N >= 1 =>
              /\ h.calls <= N => (h.fails = 0 /\ (finished(m) <=> h.calls = N))
              /\ h.calls > N => (finished(m) /\ h.fails = h.calls - N)
              /\ (last.op = "step" /\ last.self = CalRef(c) /\ last.raised)
                    => (last.val = FinishedError /\ h.calls > N)

\* A calendar of at least two steps whose (N+1)-th step() has just raised.
C1_Witness ==
    \E c \in alloc :
        /\ cal[c].trade_len >= 2
        /\ hist[c].calls = cal[c].trade_len + 1
        /\ hist[c].fails = 1
        /\ last = Call("step", CalRef(c), NoneV, Raised("RuntimeError: The calendar is finished"))

\* C2: in every reachable state 0 <= trade_step <= trade_len, whatever
\* positions the location service answered with.
C2_StepWithinLen ==
    \A c \in alloc : 0 <= cal[c].trade_step /\ cal[c].trade_step <= cal[c].trade_len

\* C3: step() on a finished calendar raises and changes no field; a finished
\* calendar stays finished until a reset.
C3_FinishedStepIsNoOp ==
    [][\A c \in alloc :
          finished(cal[c]) =>
            /\ (last'.op = "step" /\ last'.self = CalRef(c))
                  => (last'.raised /\ last'.val = FinishedError /\ cal'[c] = cal[c])
            /\ ~(last'.op = "reset" /\ last'.self = CalRef(c))
                  => (cal'[c] = cal[c] /\ finished(cal'[c]))]_vars

\* A second failing step() on a finished calendar that did take steps.
C3_Witness ==
    \E c \in alloc :
        /\ finished(cal[c])
        /\ cal[c].trade_step >= 1
        /\ hist[c].fails >= 2
        /\ last.op = "step" /\ last.self = CalRef(c) /\ last.raised

\* C4: right after reset() (and after construction, which runs it)
\* trade_step is 0, and finished() is false when the new trade_len > 0.
C4_ResetRewinds ==
    \A c \in alloc :
        (last.op \in {"reset", "__init__"} /\ last.self = CalRef(c))
            => /\ cal[c].trade_step = 0
               /\ cal[c].trade_len > 0 => ~finished(cal[c])
               /\ cal[c].trade_len = cal[c].end_index - cal[c].start_index + 1

\* A calendar that has just been reset to a non-empty range.
C4_Witness ==
    \E c \in alloc :
        /\ last.op = "reset" /\ last.self = CalRef(c)
        /\ cal[c].trade_len > 0
        /\ ~finished(cal[c])

\* C5: every change of trade_step that is not a reset is an increase by
\* exactly one made by a step() that returned; a step() that returned
\* increased it by one; the reading calls leave it alone.
C5_StepByOne ==
    [][\A c \in alloc :
          /\ (last'.op = "step" /\ last'.self = CalRef(c) /\ ~last'.raised)
                => cal'[c].trade_step = cal[c].trade_step + 1
          /\ (cal'[c].trade_step # cal[c].trade_step /\ last'.op # "reset")
                => /\ last'.op = "step" /\ last'.self = CalRef(c) /\ ~last'.raised
                   /\ cal'[c].trade_step = cal[c].trade_step + 1
          /\ last'.op \in {"finished", "get_freq", "get_trade_len", "get_trade_step",
                           "get_step_time", "get_cur_step_time", "get_all_time"}
                => cal'[c] = cal[c]]_vars

\* The second successful step() after a reset.
C5_Witness ==
    \E c \in alloc :
        /\ last.op = "step" /\ last.self = CalRef(c) /\ ~last.raised
        /\ cal[c].trade_step = 2
        /\ hist[c].calls = 2

-----------------------------------------------------------------------------
(* Properties of the registries, checked under SpecInfra *)

\* C6: no name outside the variant's supported set is ever stored in a
\* registry, has() is false for it, and construction, reset_infra, update,
\* reset_cal and set_sub_level_infra never raise.
C6_OnlySupportedStored ==
    /\ \A r \in live : \A n \in Names \ get_support_infra(r) :
          attrs[r][n] = Absent /\ ~has(r, attrs[r], n)
    /\ last.op \in {"__init__", "reset_infra", "update", "reset_cal", "set_sub_level_infra"}
          => ~last.raised

\* The CommonInfrastructure has just been updated from a LevelInfrastructure
\* that holds a calendar: the slot was dropped with a warning.
C6_Witness ==
    /\ last.op = "update" /\ last.self = InfraRef(3) /\ last.arg = InfraRef(1)
    /\ last.warn /\ ~last.raised
    /\ attrs[1]["trade_calendar"] # Absent
    /\ attrs[3]["trade_calendar"] = Absent

\* C7: after a.update(b), for every slot X that b supports and holds and
\* that a supports, a.get(X) is the object b.get(X) is.
C7_UpdateCopies ==
    last.op = "update" =>
        LET a == last.self.id
            b == last.arg.id
        IN  \A X \in get_support_infra(a) \cap get_support_infra(b) :
                attrs[b][X] # Absent =>
                    /\ get(a, attrs[a], X) = Returned(attrs[b][X])
                    /\ get(a, attrs[a], X) = get(b, attrs[b], X)

\* Registry 2, which had its own calendar 2, has just been updated from
\* registry 1 and now holds registry 1's calendar 1.
C7_Witness ==
    /\ last.op = "update" /\ last.self = InfraRef(2) /\ last.arg = InfraRef(1)
    /\ alloc = {1, 2}
    /\ attrs[1]["trade_calendar"] = CalRef(1)
    /\ attrs[2]["trade_calendar"] = CalRef(1)

\* C8: has(name) is true exactly when name is in the supported set and a
\* value is stored under it, for every registry and every name.
C8_HasIffSupportedAndStored ==
    /\ \A r \in live : \A n \in Names :
          has(r, attrs[r], n) <=> (n \in get_support_infra(r) /\ attrs[r][n] # Absent)
    /\ last.op = "has" =>
          LET r == last.self.id
              n == last.arg.s
          IN  /\ ~last.raised
              /\ last.val = BoolV(n \in get_support_infra(r) /\ attrs[r][n] # Absent)

\* has("trade_calendar") has just answered false on a LevelInfrastructure
\* that holds a sub_level_infra but never got a calendar.
C8_Witness ==
    /\ last.op = "has" /\ last.self = InfraRef(1) /\ last.arg = StrV("trade_calendar")
    /\ last.val = BoolV(FALSE)
    /\ attrs[1]["sub_level_infra"] # Absent
    /\ attrs[1]["trade_calendar"] = Absent

\* C9: get(name) never raises; it returns the value stored under name, and
\* None when nothing is stored under it, for every name, method names included.
C9_GetStoredOrNone ==
    last.op = "get" =>
        LET r == last.self.id
            n == last.arg.s
        IN  /\ ~last.raised
            /\ attrs[r][n] # Absent => last.val = attrs[r][n]
            /\ attrs[r][n] = Absent => last.val = NoneV

-----------------------------------------------------------------------------
(* Properties of LevelInfrastructure with its calendar, checked under SpecLevel *)

\* C10: reset_cal on a registry that holds a calendar resets that same
\* object (the slot still refers to it, no object is created, every registry
\* referring to it sees the reset calendar); on a registry that holds none it
\* constructs a new calendar and stores it; in both cases the calendar has
\* trade_step 0 and a recomputed trade_len, and has("trade_calendar") is true.
C10_ResetCalInPlace ==
    [][last'.op = "reset_cal" =>
          LET r == last'.self.id
              old == attrs[r]["trade_calendar"]
              new == attrs'[r]["trade_calendar"]
          IN  /\ ~last'.raised
              /\ has(r, attrs'[r], "trade_calendar")
              /\ new.kind = "cal" /\ new.id \in alloc'
              /\ old # Absent =>
                    /\ new = old
                    /\ alloc' = alloc
                    /\ attrs' = attrs
                    /\ \A o \in live : attrs[o]["trade_calendar"] = old =>
                          cal'[attrs'[o]["trade_calendar"].id].trade_step = 0
              /\ old = Absent =>
                    /\ new.id \notin alloc
                    /\ alloc' = alloc \cup {new.id}
                    /\ \A o \in live \ {r} : attrs'[o] = attrs[o]
              /\ cal'[new.id].trade_step = 0
              /\ cal'[new.id].trade_len = cal'[new.id].end_index - cal'[new.id].start_index + 1
              /\ \A c \in CalIds \ {new.id} : cal'[c] = cal[c]]_vars

\* reset_cal through registry 1 has just reset the calendar both registries hold.
C10_Witness ==
    /\ last.op = "reset_cal" /\ last.self = InfraRef(1)
    /\ attrs[1]["trade_calendar"] = CalRef(1)
    /\ attrs[2]["trade_calendar"] = CalRef(1)
    /\ has(1, attrs[1], "trade_calendar")
    /\ cal[1].trade_step = 0
    /\ cal[1].trade_len = 2

-----------------------------------------------------------------------------
(* Further properties of the registries, checked under SpecInfra *)

\* C11 (as stated): a LevelInfrastructure comes to hold a sub_level_infra
\* only by a set_sub_level_infra call on it.
C11_LinkOnlyBySetter ==
    [][\A r \in LevelRegs :
          (attrs[r]["sub_level_infra"] = Absent /\ attrs'[r]["sub_level_infra"] # Absent)
              => (last'.op = "set_sub_level_infra" /\ last'.self = InfraRef(r))]_vars

\* C11 (amended): a LevelInfrastructure comes to hold a sub_level_infra only
\* by a call on it that writes the slot through reset_infra:
\* set_sub_level_infra, construction or reset_infra with the keyword
\* sub_level_infra, or update from a registry that holds one.  Construction
\* without that keyword, reset_cal, get and has never establish the link.
C11_LinkOnlyByWrite ==
    [][\A r \in LevelRegs :
          (attrs[r]["sub_level_infra"] = Absent /\ attrs'[r]["sub_level_infra"] # Absent)
              => /\ last'.self = InfraRef(r)
                 /\ \/ last'.op = "set_sub_level_infra"
                    \/ /\ last'.op \in {"__init__", "reset_infra"}
                       /\ "sub_level_infra" \in DOMAIN last'.arg.kw
                       /\ attrs'[r]["sub_level_infra"] = last'.arg.kw["sub_level_infra"]
                    \/ /\ last'.op = "update"
                       /\ attrs[last'.arg.id]["sub_level_infra"] # Absent
                       /\ attrs'[r]["sub_level_infra"] =
                             attrs[last'.arg.id]["sub_level_infra"]]_vars

\* Registry 2 has just been constructed with sub_level_infra = registry 1
\* and holds the link without any set_sub_level_infra call.
C11_Witness ==
    /\ last.op = "__init__" /\ last.self = InfraRef(2)
    /\ "sub_level_infra" \in DOMAIN last.arg.kw
    /\ attrs[2]["sub_level_infra"] = InfraRef(1)
    /\ has(2, attrs[2], "sub_level_infra")

-----------------------------------------------------------------------------
(* Further properties of the step calendar, checked under SpecCal *)

\* C12: get_start_end_idx returns (0, trade_len - 1) when the decision's
\* get_range_limit() signals "not implemented", and the decision's own pair,
\* unclamped, when it answers; the call changes no object.
C12_RangeOrFallback ==
    [][last'.op = "get_start_end_idx" =>
          LET m == cal[last'.self.id]
              dec == last'.arg
          IN  /\ ~last'.raised
              /\ ~dec.impl => last'.val = PairV(IntV(0), IntV(m.trade_len - 1))
              /\ dec.impl => last'.val = PairV(IntV(dec.a), IntV(dec.b))
              /\ cal' = cal /\ alloc' = alloc /\ attrs' = attrs /\ live' = live]_vars

\* A decision's range that lies outside [0, trade_len) on both sides has
\* just been returned as it is.
C12_Witness ==
    /\ last.op = "get_start_end_idx"
    /\ last.arg = Limit(-1, MaxIndex + 1)
    /\ last.val = PairV(IntV(-1), IntV(MaxIndex + 1))
    /\ cal[last.self.id].trade_len >= 1
    /\ cal[last.self.id].trade_len <= MaxIndex + 1

\* The bar of effective step e of calendar m and the bar after it are
\* positions of the discretized sequence.
Inside(m, e) == 0 <= m.start_index + e /\ m.start_index + e + 1 < Len(m.calendar)

\* C13: whenever the bar start_index + s - shift and the one after it are
\* inside the sequence, get_step_time(s, shift) returns what
\* get_step_time(s - shift, 0) returns; a positive shift selects an earlier
\* bar than shift 0, a negative one a later bar.
C13_ShiftIsReindexing ==
    \A c \in alloc :
        LET m == cal[c]
        IN  /\ \A s \in StepArgs, sh \in ShiftArgs :
                  Inside(m, s - sh) =>
                      /\ ~get_step_time(m, s, sh).raised
                      /\ get_step_time(m, s, sh) = get_step_time(m, s - sh, 0)
                      /\ (Inside(m, s) /\ sh > 0) =>
                            get_step_time(m, s, sh).val.a.t < get_step_time(m, s, 0).val.a.t
                      /\ (Inside(m, s) /\ sh < 0) =>
                            get_step_time(m, s, sh).val.a.t > get_step_time(m, s, 0).val.a.t
            /\ (last.op = "get_step_time" /\ last.self = CalRef(c) /\ last.arg.kind = "pair")
                  => (Inside(m, last.arg.a.n - last.arg.b.n) =>
                        /\ ~last.raised
                        /\ last.val = get_step_time(m, last.arg.a.n - last.arg.b.n, 0).val)

\* get_step_time(2, shift = 1) has just returned the interval of step 1.
C13_Witness ==
    \E c \in alloc :
        /\ last.op = "get_step_time" /\ last.self = CalRef(c)
        /\ last.arg = PairV(IntV(2), IntV(1))
        /\ ~last.raised
        /\ last.val = get_step_time(cal[c], 1, 0).val
        /\ last.val # get_step_time(cal[c], 2, 0).val

C15_DefaultIsCursor ==
    \A c \in alloc :
        (last.op = "get_step_time" /\ last.self = CalRef(c) /\ last.arg = NoneV)
            => /\ last.raised = get_cur_step_time(cal[c]).raised
               /\ last.val = get_cur_step_time(cal[c]).val

\* C15 (amended): a get_step_time() call without arguments has the outcome
\* of get_step_time(0, 0), the first step, wherever the cursor is;
\* get_cur_step_time() has the outcome of get_step_time(trade_step, 0); the
\* two agree while trade_step = 0.
C15_DefaultIsStepZero ==
    \A c \in alloc :
        LET m == cal[c]
        IN  /\ (last.op = "get_step_time" /\ last.self = CalRef(c) /\ last.arg = NoneV)
                  => /\ last.raised = get_step_time(m, 0, 0).raised
                     /\ last.val = get_step_time(m, 0, 0).val
                     /\ m.trade_step = 0 =>
                            /\ last.raised = get_cur_step_time(m).raised
                            /\ last.val = get_cur_step_time(m).val
            /\ (last.op = "get_cur_step_time" /\ last.self = CalRef(c))
                  => /\ last.raised = get_step_time(m, m.trade_step, 0).raised
                     /\ last.val = get_step_time(m, m.trade_step, 0).val

\* After a step, get_step_time() has returned the interval of step 0, which
\* is not the interval of the current step.
C15_Witness ==
    \E c \in alloc :
        /\ last.op = "get_step_time" /\ last.self = CalRef(c) /\ last.arg = NoneV
        /\ cal[c].trade_step >= 1
        /\ ~last.raised
        /\ ~get_cur_step_time(cal[c]).raised
        /\ last.val = get_step_time(cal[c], 0, 0).val
        /\ last.val # get_cur_step_time(cal[c]).val

\* C16: a get_cur_step_time() call on a calendar that step() has advanced
\* trade_len times since its last reset, and that is therefore finished,
\* raises instead of returning an interval.
C16_FinishedCurStepTimeFails ==
    \A c \in alloc :
        (/\ last.op = "get_cur_step_time" /\ last.self = CalRef(c)
         /\ cal[c].trade_len >= 1
         /\ hist[c].calls = cal[c].trade_len /\ hist[c].fails = 0
         /\ finished(cal[c]))
            => last.raised

\* C17: a step() that returns changes trade_step of its calendar and nothing
\* else: freq, start_time, end_time, the sequence, start_index, end_index and
\* trade_len are as before, get_all_time() and get_step_time(s, shift) for
\* every explicit s and shift have the outcome they had before, and no other
\* calendar or registry changes.
C17_StepFrame ==
    [][\A c \in alloc :
          (last'.op = "step" /\ last'.self = CalRef(c) /\ ~last'.raised) =>
              /\ cal'[c] = [cal[c] EXCEPT !.trade_step = cal[c].trade_step + 1]
              /\ cal'[c].freq = cal[c].freq
              /\ cal'[c].start_time = cal[c].start_time
              /\ cal'[c].end_time = cal[c].end_time
              /\ cal'[c].calendar = cal[c].calendar
              /\ cal'[c].start_index = cal[c].start_index
              /\ cal'[c].end_index = cal[c].end_index
              /\ cal'[c].trade_len = cal[c].trade_len
              /\ get_all_time(cal'[c]) = get_all_time(cal[c])
              /\ \A s \in StepArgs, sh \in ShiftArgs :
                    get_step_time(cal'[c], s, sh) = get_step_time(cal[c], s, sh)
              /\ \A d \in CalIds \ {c} : cal'[d] = cal[d]
              /\ UNCHANGED <<alloc, attrs, live>>]_vars

\* A step() has just returned on a calendar whose steps 0 and 1 have
\* intervals to compare.
C17_Witness ==
    \E c \in alloc :
        /\ last.op = "step" /\ last.self = CalRef(c) /\ ~last.raised
        /\ cal[c].trade_step >= 1
        /\ ~get_step_time(cal[c], 0, 0).raised
        /\ ~get_step_time(cal[c], 1, 0).raised
        /\ cal[c].start_time # NoneV

\* C18: reset_infra(**kwargs) is applied pair by pair: every pair whose name
\* the variant supports is stored, replacing what the slot held, every other
\* pair is dropped with a warning, the slots the call does not name keep
\* their value, the call does not raise, and no other registry changes.
C18_ResetInfraPerPair ==
    [][last'.op = "reset_infra" =>
          LET r == last'.self.id
              kw == last'.arg.kw
          IN  /\ ~last'.raised
              /\ last'.warn <=> (\E n \in DOMAIN kw : n \notin get_support_infra(r))
              /\ \A n \in Names :
                    /\ (n \in DOMAIN kw /\ n \in get_support_infra(r))
                          => attrs'[r][n] = kw[n]
                    /\ (n \in DOMAIN kw /\ n \notin get_support_infra(r))
                          => attrs'[r][n] = attrs[r][n] /\ attrs'[r][n] = Absent
                    /\ n \notin DOMAIN kw => attrs'[r][n] = attrs[r][n]
              /\ \A o \in Regs \ {r} : attrs'[o] = attrs[o]
              /\ UNCHANGED <<cal, alloc, live, hist>>]_vars

\* reset_infra has just been called with one supported and one unsupported
\* name: the first is stored, the second is not, and the call warned.
C18_Witness ==
    /\ last.op = "reset_infra" /\ ~last.raised /\ last.warn
    /\ \E n \in DOMAIN last.arg.kw, u \in DOMAIN last.arg.kw :
          /\ n \in get_support_infra(last.self.id)
          /\ u \notin get_support_infra(last.self.id)
          /\ attrs[last.self.id][n] = last.arg.kw[n]
          /\ attrs[last.self.id][u] = Absent

----------------------------------------------------------------------------
(* Properties of the driving loop, checked under SpecLoop *)

\* C19: the loop "while not finished(): step()" on a freshly reset calendar
\* of any trade_len, negative and zero included, never makes step() raise,
\* has made max(trade_len, 0) steps exactly when the calendar is finished,
\* and, its steps being weakly fair and no reset intervening, reaches the
\* test that answers True.
C19_LoopTerminates ==
    /\ [](\A c \in alloc :
            /\ last.op = "step" => ~last.raised
            /\ hist[c].fails = 0
            /\ hist[c].calls <= Max(cal[c].trade_len, 0)
            /\ finished(cal[c]) <=> hist[c].calls = Max(cal[c].trade_len, 0)
            /\ LoopDone(c) => finished(cal[c]))
    /\ (1 \in alloc) ~> (LoopDone(1) /\ hist[1].calls = Max(cal[1].trade_len, 0))

\* The loop has left a calendar of two steps after stepping it twice.
C19_Witness ==
    /\ 1 \in alloc
    /\ LoopDone(1)
    /\ cal[1].trade_len = 2
    /\ hist[1].calls = 2
    /\ hist[1].fails = 0

----------------------------------------------------------------------------
(* Properties of shared calendars, checked under SpecLevel *)

\* Registries a and b hold the same calendar object.
Shared(a, b) ==
    /\ a \in live /\ b \in live
    /\ attrs[a]["trade_calendar"].kind = "cal"
    /\ attrs[a]["trade_calendar"] = attrs[b]["trade_calendar"]

\* C20: a.update(b) with b holding a calendar makes a hold that very object
\* and creates none; while neither registry stores another calendar through
\* reset_infra, the two keep holding the same object across every step(),
\* reset_cal(), update(), get() and has(), a step() made through one
\* advances the trade_step read through the other by one, and a reset_cal()
\* made through one rewinds it for the other.
C20_UpdateShares ==
    [][/\ last'.op = "update" =>
             LET a == last'.self.id
                 b == last'.arg.id
             IN  attrs[b]["trade_calendar"] # Absent =>
                    /\ attrs'[a]["trade_calendar"] = attrs[b]["trade_calendar"]
                    /\ attrs'[b]["trade_calendar"] = attrs[b]["trade_calendar"]
                    /\ alloc' = alloc /\ cal' = cal
       /\ \A a \in LevelRegs, b \in LevelRegs :
             (a # b /\ Shared(a, b) /\ last'.op \notin {"reset_infra"}) =>
                LET ca == get(a, attrs'[a], "trade_calendar").val
                    cb == get(b, attrs'[b], "trade_calendar").val
                    old == attrs[b]["trade_calendar"].id
                IN  /\ ca = cb /\ cb = attrs[b]["trade_calendar"]
                    /\ get_trade_step(cal'[ca.id]) = get_trade_step(cal'[cb.id])
                    /\ (last'.op = "step" /\ ~last'.raised /\ last'.self = attrs[a]["trade_calendar"])
                          => get_trade_step(cal'[cb.id]).val.n = get_trade_step(cal[old]).val.n + 1
                    /\ (last'.op = "reset_cal" /\ last'.self = InfraRef(a))
                          => get_trade_step(cal'[cb.id]).val.n = 0]_vars

\* Registry 2 has just been updated from registry 1, whose calendar had
\* already been stepped: both read trade_step 1 from the one object.
C20_Witness ==
    /\ last.op = "update" /\ last.self = InfraRef(2) /\ last.arg = InfraRef(1)
    /\ Shared(1, 2)
    /\ get_trade_step(cal[attrs[2]["trade_calendar"].id]) = Returned(IntV(1))
    /\ alloc = {attrs[1]["trade_calendar"].id}

====
